---- MODULE Spec2Model ----
(***************************************************************************)
(* Model of the btcd block manager (blockmanager.go): sync-peer selection, *)
(* the block / inventory handler, chain notification reactions and the     *)
(* Start / Stop lifecycle of the three handler goroutines.                 *)
(*                                                                         *)
(* Peers are 1..NumPeers (NoPeer = nil).  Blocks are identified by their   *)
(* hash 1..NumBlocks and form one chain: the parent of block b is b - 1,   *)
(* block 0 is the genesis block, which the chain always holds.             *)
(*                                                                         *)
(* Four specifications share the state and the handler definitions:        *)
(*   SpecSync    the sync coordinator (syncHandler) and its environment    *)
(*   SpecInv     handleInvMsg applied to inventory messages                *)
(*   SpecIngest  QueueBlock, handleBlockMsg, the chain notifications and   *)
(*               their reactions                                           *)
(*   Spec        all goroutines together with Start and Stop               *)
(***************************************************************************)
EXTENDS Integers, Sequences, FiniteSets, TLC

\* ---------------------------------------------------------------- bounds
NumPeers == 3
NumBlocks == 2
MaxInvLen == 3
MaxReqQueue == 4
\* The number of concurrent callers of Stop.
NumStoppers == 2
\* The number of QueueBlock / QueueInv calls a peer session makes.
MaxCalls == 1

\* btcwire.MaxInvPerMsg (50000 in btcwire), scaled down so that a request
\* queue can exceed it within the bounds.
MaxInvPerMsg == 2

\* chanBufferSize (50 in the source), scaled down likewise.
chanBufferSize == 2

Peers == 1..NumPeers
NoPeer == 0
Blocks == 1..NumBlocks
zeroHash == 0
StopCallers == 1..NumStoppers
\* cfg.MaxPeers: the capacity of the newCandidates and donePeers channels.
MaxPeers == NumPeers
\* Heights a peer can announce in its version message.
PeerHeights == 1..NumBlocks
\* The peer whose inventory messages the inventory specification handles.
InvPeers == {1}
\* The peers that submit blocks in the ingest specification.
IngestPeers == Peers
\* The peer that is connected in the specification of all goroutines.
LifePeers == {1}

VARIABLES
    \* lifecycle: blockManager.started, .shutdown, .quit (closed or not),
    \* .wg (its counter); whether the process has panicked; where each
    \* caller of Stop is
    started, shutdown, quitClosed, wg, panicked, stopPc,
    \* peer sessions: announced height and full-node service bit, whether
    \* the peer was announced as a candidate / reported done
    lastBlock, fullNode, announced, doneSent,
    \* peer sessions calling QueueBlock / QueueInv: where each is, what it
    \* submits, its blockProcessed channel, and the number of calls it
    \* has made so far
    peerPc, peerArg, blockProcessed, numCalls,
    \* sync coordinator (syncHandler goroutine)
    syncPc, candidatePeers, syncPeer, newCandidates, donePeers, syncEv,
    \* chain engine / block store
    chain,
    \* block / inventory handler (blockHandler goroutine)
    bhPc, bhMsg, bhRes, blockQueue, receivedLogBlocks, receivedLogTx,
    dbSyncs, blkEv, invQueue, requestQueue, invEv,
    \* the kinds ("block" / "inv") of the messages sent on b.blockQueue and
    \* b.invQueue that the block handler has not received yet, in the order
    \* they were sent
    submitOrder,
    \* block-origin map and its mutex
    blockPeer, blockPeerMutex,
    \* chain notifications: the channel, the handler goroutine and the
    \* reaction goroutines it spawned
    chainNotify, cnPc, rx, rxEv

lifeVars == <<started, shutdown, quitClosed, wg, panicked, stopPc>>
lifeFlags == <<started, shutdown, quitClosed, panicked, stopPc>>
peerVars == <<lastBlock, fullNode, announced, doneSent>>
callVars == <<peerPc, peerArg, blockProcessed, numCalls>>
syncVars == <<syncPc, candidatePeers, syncPeer, newCandidates, donePeers, syncEv>>
invVars == <<invQueue, requestQueue, invEv, submitOrder>>
blkVars == <<bhMsg, bhRes, blockQueue, receivedLogBlocks, receivedLogTx,
             dbSyncs, blkEv>>
mapVars == <<blockPeer, blockPeerMutex>>
noteVars == <<chainNotify, cnPc, rx, rxEv>>

vars == <<lifeVars, peerVars, callVars, syncVars, chain, bhPc, blkVars,
          invVars, mapVars, noteVars>>

\* ------------------------------------------------------ sequence helpers
RemoveAt(s, i) == SubSeq(s, 1, i - 1) \o SubSeq(s, i + 1, Len(s))

RECURSIVE IndexOf(_, _, _)
\* The index of the first element of s, from i on, equal to x; 0 when none.
IndexOf(s, x, i) ==
    IF i > Len(s) THEN 0
    ELSE IF s[i] = x THEN i
    ELSE IndexOf(s, x, i + 1)

RECURSIVE SelectSeqIdx(_, _, _)
\* The elements s[i], i from k on, whose index satisfies keep[i], in order.
SelectSeqIdx(s, keep, k) ==
    IF k > Len(s) THEN <<>>
    ELSE (IF keep[k] THEN <<s[k]>> ELSE <<>>) \o SelectSeqIdx(s, keep, k + 1)

Range(s) == {s[i] : i \in DOMAIN s}

\* s without the first of its elements equal to x.
RemoveFirst(s, x) ==
    LET i == IndexOf(s, x, 1) IN IF i = 0 THEN s ELSE RemoveAt(s, i)

\* ------------------------------------------------- outbound peer messages
\* peer.PushGetBlocksMsg(locator, stopHash).  A locator is named by how it
\* was built: "latest" (LatestBlockLocator) or "hash" (BlockLocatorFromHash)
\* together with the tip / hash it was built from.
GetBlocksMsg(p, kind, from, stop) ==
    [type |-> "getblocks", to |-> p, locKind |-> kind, locHash |-> from,
     stop |-> stop, list |-> <<>>]

\* peer.QueueMessage(gdmsg) for a getdata message holding the list.
GetDataMsg(p, list) ==
    [type |-> "getdata", to |-> p, locKind |-> "none", locHash |-> 0,
     stop |-> 0, list |-> list]

\* --------------------------------------------- chain engine / block store
\* The state of the chain engine: every block is unknown, on the main chain
\* or in the orphan pool.
ChainStates == [Blocks -> {"unknown", "main", "orphan"}]

Parent(b) == b - 1

OnMainChain(c, b) == b = 0 \/ (b \in Blocks /\ c[b] = "main")

\* btcdb NewestSha: the height of the best block (the chain is linear).
NewestHeight(c) == Cardinality({b \in Blocks : c[b] = "main"})

\* btcchain IsKnownOrphan.
IsKnownOrphan(c, b) == b \in Blocks /\ c[b] = "orphan"

\* btcchain HaveInventory for a block vector: on the chain or an orphan.
HaveBlock(c, b) == b \in Blocks /\ c[b] # "unknown"

RECURSIVE GetOrphanRoot(_, _)
\* btcchain GetOrphanRoot: follow the parents while they are orphans; the
\* result is the earliest missing ancestor of the orphan chain.
GetOrphanRoot(c, b) ==
    IF IsKnownOrphan(c, b) THEN GetOrphanRoot(c, Parent(b)) ELSE b

RECURSIVE ConnectFrom(_, _)
\* Connecting block b to the main chain also connects the orphans that were
\* waiting for it; the result is the new chain state.
ConnectFrom(c, b) ==
    LET c1 == [c EXCEPT ![b] = "main"]
    IN IF b + 1 \in Blocks /\ c[b + 1] = "orphan"
       THEN ConnectFrom(c1, b + 1) ELSE c1

\* The notifications the chain engine emits, in order.
OrphanNote(b) == [kind |-> "orphan", hash |-> b]
AcceptedNote(b) == [kind |-> "accepted", hash |-> b]

RECURSIVE AcceptedNotes(_, _)
AcceptedNotes(c, b) ==
    <<AcceptedNote(b)>> \o
    (IF b + 1 \in Blocks /\ c[b + 1] = "orphan"
     THEN AcceptedNotes(c, b + 1) ELSE <<>>)

\* btcchain ProcessBlock(block): a block already held (on the chain or as an
\* orphan) or failing validation is rejected with an error; a block whose
\* parent is on the main chain is accepted on it; any other block is
\* accepted into the orphan pool.
ProcessBlock(c, b, valid) ==
    IF c[b] # "unknown" \/ ~valid
    THEN [err |-> TRUE, chain |-> c, notes |-> <<>>]
    ELSE IF OnMainChain(c, Parent(b))
    THEN [err |-> FALSE, chain |-> ConnectFrom(c, b), notes |-> AcceptedNotes(c, b)]
    ELSE [err |-> FALSE, chain |-> [c EXCEPT ![b] = "orphan"],
          notes |-> <<OrphanNote(b)>>]

\* ------------------------------------------------------- sync coordinator
RECURSIVE ScanCandidates(_, _, _, _)
\* The loop of startSync over the candidate list (lines 90-104), from
\* element i on, with the best peer found so far.  A candidate ahead of the
\* local height becomes bestPeer (each one overwrites the one before).  A
\* candidate at or below it is removed with peers.Remove(e); container/list
\* clears the removed element's links, so the e.Next() of the loop header
\* then yields nil and the loop ends there.
ScanCandidates(list, i, best, height) ==
    IF i > Len(list) THEN [peers |-> list, bestPeer |-> best]
    ELSE IF lastBlock[list[i]] <= height
    THEN [peers |-> RemoveAt(list, i), bestPeer |-> best]
    ELSE ScanCandidates(list, i + 1, list[i], height)

\* startSync(peers): the new candidate list, the new sync peer and the
\* messages pushed, given whether NewestSha and LatestBlockLocator succeed.
\* ran: the call got past its two early returns (lines 79-88); locFail: a
\* best peer was found and the locator could not be built (lines 109-113).
startSync(list, sp, heightOk, locOk) ==
    IF sp # NoPeer \/ ~heightOk
    THEN [peers |-> list, syncPeer |-> sp, msgs |-> <<>>, ran |-> FALSE,
          height |-> 0, locFail |-> FALSE]
    ELSE LET height == NewestHeight(chain)
             r == ScanCandidates(list, 1, NoPeer, height)
         IN IF r.bestPeer # NoPeer /\ locOk
            THEN [peers |-> r.peers, syncPeer |-> r.bestPeer,
                  msgs |-> <<GetBlocksMsg(r.bestPeer, "latest", height, zeroHash)>>,
                  ran |-> TRUE, height |-> height, locFail |-> FALSE]
            ELSE [peers |-> r.peers, syncPeer |-> NoPeer, msgs |-> <<>>,
                  ran |-> TRUE, height |-> height,
                  locFail |-> r.bestPeer # NoPeer]

\* What the sync task last did: the handler, its peer, whether that peer was
\* the sync peer, and what the startSync it ran (if any) read and pushed.
NoSyncEv ==
    [op |-> "none", peer |-> NoPeer, height |-> 0, ran |-> FALSE,
     locFail |-> FALSE, wasSync |-> FALSE, msgs |-> <<>>]

SyncEvOf(op, p, wasSync, r) ==
    [op |-> op, peer |-> p, height |-> r.height, ran |-> r.ran,
     locFail |-> r.locFail, wasSync |-> wasSync, msgs |-> r.msgs]

\* handleNewCandidateMsg(peers, p), received from b.newCandidates.
handleNewCandidateMsg(p, heightOk, locOk) ==
    IF shutdown \/ ~fullNode[p]
    THEN /\ syncEv' = [NoSyncEv EXCEPT !.op = "candidate", !.peer = p]
         /\ UNCHANGED <<candidatePeers, syncPeer>>
    ELSE LET r == startSync(Append(candidatePeers, p), syncPeer, heightOk, locOk)
         IN /\ candidatePeers' = r.peers
            /\ syncPeer' = r.syncPeer
            /\ syncEv' = SyncEvOf("candidate", p, FALSE, r)

\* handleDonePeerMsg(peers, p), received from b.donePeers.
handleDonePeerMsg(p, heightOk, locOk) ==
    LET i == IndexOf(candidatePeers, p, 1)
        list == IF i = 0 THEN candidatePeers ELSE RemoveAt(candidatePeers, i)
    IN IF syncPeer # NoPeer /\ syncPeer = p
       THEN LET r == startSync(list, NoPeer, heightOk, locOk)
            IN /\ candidatePeers' = r.peers
               /\ syncPeer' = r.syncPeer
               /\ syncEv' = SyncEvOf("done", p, TRUE, r)
       ELSE /\ candidatePeers' = list
            /\ UNCHANGED syncPeer
            /\ syncEv' = [NoSyncEv EXCEPT !.op = "done", !.peer = p]

\* syncHandler: the loop condition `for !b.shutdown`; after the loop,
\* b.wg.Done().
SyncLoop ==
    /\ syncPc = "loop"
    /\ IF shutdown
       THEN syncPc' = "done" /\ wg' = wg - 1
       ELSE syncPc' = "select" /\ UNCHANGED wg
    /\ UNCHANGED <<lifeFlags, peerVars, callVars, candidatePeers, syncPeer,
                   newCandidates, donePeers, syncEv, chain, bhPc, blkVars,
                   invVars, mapVars, noteVars>>

\* syncHandler: case peer := <-b.newCandidates.
SyncNewCandidate ==
    /\ syncPc = "select"
    /\ newCandidates # <<>>
    /\ \E heightOk \in BOOLEAN, locOk \in BOOLEAN :
           handleNewCandidateMsg(Head(newCandidates), heightOk, locOk)
    /\ newCandidates' = Tail(newCandidates)
    /\ syncPc' = "loop"
    /\ UNCHANGED <<lifeVars, peerVars, callVars, donePeers, chain, bhPc,
                   blkVars, invVars, mapVars, noteVars>>

\* syncHandler: case peer := <-b.donePeers.
SyncDonePeer ==
    /\ syncPc = "select"
    /\ donePeers # <<>>
    /\ \E heightOk \in BOOLEAN, locOk \in BOOLEAN :
           handleDonePeerMsg(Head(donePeers), heightOk, locOk)
    /\ donePeers' = Tail(donePeers)
    /\ syncPc' = "loop"
    /\ UNCHANGED <<lifeVars, peerVars, callVars, newCandidates, chain, bhPc,
                   blkVars, invVars, mapVars, noteVars>>

\* syncHandler: case <-b.quit, then b.wg.Done().
SyncQuit ==
    /\ syncPc = "select"
    /\ quitClosed
    /\ syncPc' = "done"
    /\ wg' = wg - 1
    /\ UNCHANGED <<lifeFlags, peerVars, callVars, candidatePeers, syncPeer,
                   newCandidates, donePeers, syncEv, chain, bhPc, blkVars,
                   invVars, mapVars, noteVars>>

\* ----------------------------------------------------- inventory handler
\* Inventory vectors: a type and a hash (one transaction is enough, the
\* handler looks at the type of a transaction vector only).
InvVects == [type : {"block"}, hash : Blocks] \cup [type : {"tx"}, hash : {1}]

\* The inventory lists of at most MaxInvLen vectors.
InvLists == UNION {[1..n -> InvVects] : n \in 0..MaxInvLen}

RECURSIVE LastBlockIndex(_, _)
\* handleInvMsg lines 267-274: the index of the last block vector of the
\* list, searched from i downwards; 0 when there is none (-1 in the source,
\* whose indices start at 0).
LastBlockIndex(inv, i) ==
    IF i < 1 THEN 0
    ELSE IF inv[i].type = "block" THEN i
    ELSE LastBlockIndex(inv, i - 1)

RECURSIVE ScanInvListAnyType(_, _, _, _, _, _)
\* ScanInvList without the switch on the vector type: a vector the chain
\* does not hold is enqueued whatever its type.
ScanInvListAnyType(inv, i, p, last, locOk, acc) ==
    IF i > Len(inv) THEN acc
    ELSE LET iv == inv[i]
             next(a) == ScanInvListAnyType(inv, i + 1, p, last, locOk, a)
         IN IF iv.type # "block" \/ ~HaveBlock(chain, iv.hash)
            THEN next([acc EXCEPT !.queue = Append(@, iv)])
            ELSE IF IsKnownOrphan(chain, iv.hash)
            THEN IF locOk[i]
                 THEN next([acc EXCEPT !.msgs = Append(@,
                          GetBlocksMsg(p, "latest", NewestHeight(chain),
                                       GetOrphanRoot(chain, iv.hash)))])
                 ELSE next(acc)
            ELSE IF i = last
            THEN next([acc EXCEPT !.msgs = Append(@,
                     GetBlocksMsg(p, "hash", iv.hash, zeroHash))])
            ELSE next(acc)

RECURSIVE ScanInvListOrphanAsTip(_, _, _, _, _, _)
\* ScanInvList without the known-orphan branch: an orphan the chain holds is
\* treated like any block it holds.
ScanInvListOrphanAsTip(inv, i, p, last, locOk, acc) ==
    IF i > Len(inv) THEN acc
    ELSE LET iv == inv[i]
             next(a) == ScanInvListOrphanAsTip(inv, i + 1, p, last, locOk, a)
         IN IF iv.type # "block" THEN next(acc)
            ELSE IF ~HaveBlock(chain, iv.hash)
            THEN next([acc EXCEPT !.queue = Append(@, iv)])
            ELSE IF i = last
            THEN next([acc EXCEPT !.msgs = Append(@,
                     GetBlocksMsg(p, "hash", iv.hash, zeroHash))])
            ELSE next(acc)

RECURSIVE ScanInvList(_, _, _, _, _, _)
\* handleInvMsg lines 280-338: the loop over the inventory vectors from
\* index i on.  acc holds the peer's request queue and the messages pushed
\* so far; locOk[i] tells whether the LatestBlockLocator call made for
\* vector i succeeds.
ScanInvList(inv, i, p, last, locOk, acc) ==
    IF i > Len(inv) THEN acc
    ELSE LET iv == inv[i]
             next(a) == ScanInvList(inv, i + 1, p, last, locOk, a)
         IN IF iv.type # "block" THEN next(acc)
            ELSE IF ~HaveBlock(chain, iv.hash)
            THEN next([acc EXCEPT !.queue = Append(@, iv)])
            ELSE IF IsKnownOrphan(chain, iv.hash)
            THEN IF locOk[i]
                 THEN next([acc EXCEPT !.msgs = Append(@,
                          GetBlocksMsg(p, "latest", NewestHeight(chain),
                                       GetOrphanRoot(chain, iv.hash)))])
                 ELSE next(acc)
            ELSE IF i = last
            THEN next([acc EXCEPT !.msgs = Append(@,
                     GetBlocksMsg(p, "hash", iv.hash, zeroHash))])
            ELSE next(acc)

\* btcwire MsgGetData.AddInvVect: refuses a vector beyond MaxInvPerMsg (the
\* handler ignores the error it returns).
AddInvVect(list, iv) ==
    IF Len(list) + 1 > MaxInvPerMsg THEN list ELSE Append(list, iv)

RECURSIVE DrainRequestQueueOffByOne(_, _, _)
\* DrainRequestQueue with the cap tested by > instead of >=.
DrainRequestQueueOffByOne(queue, list, numRequested) ==
    IF queue = <<>> THEN [queue |-> queue, list |-> list]
    ELSE LET list1 == AddInvVect(list, Head(queue))
         IN IF numRequested + 1 > MaxInvPerMsg
            THEN [queue |-> Tail(queue), list |-> list1]
            ELSE DrainRequestQueueOffByOne(Tail(queue), list1, numRequested + 1)

RECURSIVE DrainRequestQueue(_, _, _)
\* handleInvMsg lines 342-356: move vectors from the front of the request
\* queue into the getdata message until the queue is empty or MaxInvPerMsg
\* of them were requested.
DrainRequestQueue(queue, list, numRequested) ==
    IF queue = <<>> THEN [queue |-> queue, list |-> list]
    ELSE LET list1 == AddInvVect(list, Head(queue))
         IN IF numRequested + 1 >= MaxInvPerMsg
            THEN [queue |-> Tail(queue), list |-> list1]
            ELSE DrainRequestQueue(Tail(queue), list1, numRequested + 1)

\* What the block handler last did for an inventory message: the message,
\* the chain state and the peer's request queue it started from, the
\* vectors whose locator call failed, and the messages it pushed.
NoInvEv ==
    [op |-> "none", peer |-> NoPeer, inv |-> <<>>, chain |-> <<>>,
     before |-> <<>>, locFail |-> <<>>, msgs |-> <<>>]

\* handleInvMsg(imsg).
handleInvMsg(imsg, locOk) ==
    LET p == imsg.peer
        inv == imsg.inv
        scan == ScanInvList(inv, 1, p, LastBlockIndex(inv, Len(inv)), locOk,
                            [queue |-> requestQueue[p], msgs |-> <<>>])
        drain == DrainRequestQueue(scan.queue, <<>>, 0)
        msgs == IF Len(drain.list) > 0
                THEN Append(scan.msgs, GetDataMsg(p, drain.list))
                ELSE scan.msgs
    IN /\ requestQueue' = [requestQueue EXCEPT ![p] = drain.queue]
       /\ invEv' = [op |-> "inv", peer |-> p, inv |-> inv, chain |-> chain,
                    before |-> requestQueue[p],
                    locFail |-> [i \in DOMAIN inv |->
                                    /\ inv[i].type = "block"
                                    /\ IsKnownOrphan(chain, inv[i].hash)
                                    /\ ~locOk[i]],
                    msgs |-> msgs]

\* blockHandler: the loop condition `for !b.shutdown`; after the loop,
\* b.wg.Done().
BhLoop ==
    /\ bhPc = "loop"
    /\ IF shutdown
       THEN bhPc' = "done" /\ wg' = wg - 1
       ELSE bhPc' = "select" /\ UNCHANGED wg
    /\ UNCHANGED <<lifeFlags, peerVars, callVars, syncVars, chain, blkVars,
                   invVars, mapVars, noteVars>>

\* blockHandler: b.handleInvMsg(imsg) for a received message.
BhInvMsg(imsg) ==
    /\ bhPc = "select"
    /\ \E locOk \in [DOMAIN imsg.inv -> BOOLEAN] :
           \* a locator is built for the known orphans only
           /\ \A i \in DOMAIN imsg.inv :
                  locOk[i] \/ (/\ imsg.inv[i].type = "block"
                               /\ IsKnownOrphan(chain, imsg.inv[i].hash))
           /\ handleInvMsg(imsg, locOk)
    /\ bhPc' = "loop"
    /\ UNCHANGED <<lifeVars, peerVars, callVars, syncVars, chain, blkVars,
                   mapVars, noteVars>>

\* blockHandler: case imsg := <-b.invQueue.
BhRecvInv ==
    /\ invQueue # <<>>
    /\ BhInvMsg(Head(invQueue))
    /\ invQueue' = Tail(invQueue)
    /\ submitOrder' = RemoveFirst(submitOrder, "inv")

\* blockHandler: case imsg := <-b.invQueue, for any message the peers of
\* InvPeers may have submitted.
BhAnyInv ==
    /\ \E p \in InvPeers, inv \in InvLists :
           /\ Len(requestQueue[p]) + Len(inv) <= MaxReqQueue
           /\ BhInvMsg([inv |-> inv, peer |-> p])
    /\ UNCHANGED <<invQueue, submitOrder>>

\* blockHandler: case <-b.quit, then b.wg.Done().
BhQuit ==
    /\ bhPc = "select"
    /\ quitClosed
    /\ bhPc' = "done"
    /\ wg' = wg - 1
    /\ UNCHANGED <<lifeFlags, peerVars, callVars, syncVars, chain, blkVars,
                   invVars, mapVars, noteVars>>

\* ----------------------------------------------------------- block handler
NoMsg == [block |-> 0, peer |-> NoPeer]
NoRes == [err |-> FALSE, notes |-> <<>>]
NoNote == [kind |-> "none", hash |-> 0]

\* The number of transactions of block b.
NumTx(b) == b

\* What the block handler last did for a block message: the block and its
\* peer, the progress counters and the store syncs when handleBlockMsg
\* started, whether handleBlockMsg has returned and whether ProcessBlock
\* returned an error.
NoBlkEv ==
    [op |-> "none", hash |-> 0, peer |-> NoPeer, done |-> FALSE,
     err |-> FALSE, blocks |-> 0, tx |-> 0, syncs |-> 0]

\* blockHandler: case bmsg := <-b.blockQueue.
BhRecvBlock ==
    /\ bhPc = "select"
    /\ blockQueue # <<>>
    /\ bhMsg' = Head(blockQueue)
    /\ blockQueue' = Tail(blockQueue)
    /\ blkEv' = [op |-> "block", hash |-> Head(blockQueue).block,
                 peer |-> Head(blockQueue).peer, done |-> FALSE,
                 err |-> FALSE, blocks |-> receivedLogBlocks,
                 tx |-> receivedLogTx, syncs |-> dbSyncs]
    /\ bhPc' = "record"
    /\ submitOrder' = RemoveFirst(submitOrder, "block")
    /\ UNCHANGED <<lifeVars, peerVars, callVars, syncVars, chain, bhRes,
                   receivedLogBlocks, receivedLogTx, dbSyncs, invQueue,
                   requestQueue, invEv, mapVars, noteVars>>

\* handleBlockMsg lines 223-226: record the peer the block came from, under
\* the mutex.
BhRecord ==
    /\ bhPc = "record"
    /\ blockPeerMutex = NoNote
    /\ blockPeer' = [blockPeer EXCEPT ![bhMsg.block] = bhMsg.peer]
    /\ bhPc' = "process"
    /\ UNCHANGED <<lifeVars, peerVars, callVars, syncVars, chain, blkVars,
                   invVars, blockPeerMutex, noteVars>>

\* handleBlockMsg line 230: b.blockChain.ProcessBlock(bmsg.block).  The
\* notifications it emits are sent on b.chainNotify one by one (BhNotify).
BhProcess ==
    /\ bhPc = "process"
    /\ \E valid \in BOOLEAN :
           LET r == ProcessBlock(chain, bhMsg.block, valid)
           IN /\ chain' = r.chain
              /\ bhRes' = [err |-> r.err, notes |-> r.notes]
              /\ bhPc' = IF r.notes = <<>> THEN "post" ELSE "notify"
    /\ UNCHANGED <<lifeVars, peerVars, callVars, syncVars, bhMsg, blockQueue,
                   receivedLogBlocks, receivedLogTx, dbSyncs, blkEv, invVars,
                   mapVars, noteVars>>

\* Inside ProcessBlock: the chain engine sends a notification on the
\* notification channel, waiting while the channel is full.
BhNotify ==
    /\ bhPc = "notify"
    /\ Len(chainNotify) < chanBufferSize
    /\ chainNotify' = Append(chainNotify, Head(bhRes.notes))
    /\ bhRes' = [bhRes EXCEPT !.notes = Tail(@)]
    /\ bhPc' = IF Tail(bhRes.notes) = <<>> THEN "post" ELSE "notify"
    /\ UNCHANGED <<lifeVars, peerVars, callVars, syncVars, chain, bhMsg,
                   blockQueue, receivedLogBlocks, receivedLogTx, dbSyncs,
                   blkEv, invVars, mapVars, cnPc, rx, rxEv>>

\* logBlockHeight(numTx, height): count the block and its transactions;
\* when 10 seconds have passed since the last log line, log and reset.
logBlockHeight(numTx, elapsed) ==
    IF elapsed
    THEN receivedLogBlocks' = 0 /\ receivedLogTx' = 0
    ELSE /\ receivedLogBlocks' = receivedLogBlocks + 1
         /\ receivedLogTx' = receivedLogTx + numTx

\* A variant of handleBlockMsgTail that, on an error, returns without
\* deleting the origin entry recorded for the block.
handleBlockMsgTailKeepEntry(heightOk, elapsed) ==
    IF bhRes.err
    THEN UNCHANGED <<blockPeer, receivedLogBlocks, receivedLogTx, dbSyncs>>
    ELSE /\ blockPeer' = IF ~IsKnownOrphan(chain, bhMsg.block)
                         THEN [blockPeer EXCEPT ![bhMsg.block] = NoPeer]
                         ELSE blockPeer
         /\ IF heightOk
            THEN /\ logBlockHeight(NumTx(bhMsg.block), elapsed)
                 /\ dbSyncs' = dbSyncs + 1
            ELSE UNCHANGED <<receivedLogBlocks, receivedLogTx, dbSyncs>>

\* handleBlockMsg lines 231-256, with the error ProcessBlock returned: on an
\* error the origin entry is deleted and the handler returns; otherwise the
\* entry is deleted unless the block is a known orphan, and (NewestSha
\* succeeding) the progress is logged and the store synced.
handleBlockMsgTail(heightOk, elapsed) ==
    IF bhRes.err
    THEN /\ blockPeer' = [blockPeer EXCEPT ![bhMsg.block] = NoPeer]
         /\ UNCHANGED <<receivedLogBlocks, receivedLogTx, dbSyncs>>
    ELSE /\ blockPeer' = IF ~IsKnownOrphan(chain, bhMsg.block)
                         THEN [blockPeer EXCEPT ![bhMsg.block] = NoPeer]
                         ELSE blockPeer
         /\ IF heightOk
            THEN /\ logBlockHeight(NumTx(bhMsg.block), elapsed)
                 /\ dbSyncs' = dbSyncs + 1
            ELSE UNCHANGED <<receivedLogBlocks, receivedLogTx, dbSyncs>>

\* handleBlockMsg after ProcessBlock has returned, up to its return.
BhPost ==
    /\ bhPc = "post"
    /\ (bhRes.err \/ ~IsKnownOrphan(chain, bhMsg.block)) => blockPeerMutex = NoNote
    /\ \E heightOk \in BOOLEAN, elapsed \in BOOLEAN :
           handleBlockMsgTail(heightOk, elapsed)
    /\ blkEv' = [blkEv EXCEPT !.done = TRUE, !.err = bhRes.err]
    /\ bhRes' = NoRes
    /\ bhPc' = "signal"
    /\ UNCHANGED <<lifeVars, peerVars, callVars, syncVars, chain, bhMsg,
                   blockQueue, invVars, blockPeerMutex, noteVars>>

\* blockHandler: bmsg.peer.blockProcessed <- true.
BhSignal ==
    /\ bhPc = "signal"
    /\ blockProcessed[bhMsg.peer] = <<>>
    /\ blockProcessed' = [blockProcessed EXCEPT ![bhMsg.peer] = <<TRUE>>]
    /\ bhMsg' = NoMsg
    /\ bhPc' = "loop"
    /\ UNCHANGED <<lifeVars, peerVars, peerPc, peerArg, numCalls, syncVars,
                   chain, bhRes, blockQueue, receivedLogBlocks, receivedLogTx,
                   dbSyncs, blkEv, invVars, mapVars, noteVars>>

\* ---------------------------------------------------- chain notifications
\* The notifications of the chain engine: an orphan was accepted, a block
\* was accepted, or another kind ("connected": a block was connected to the
\* main chain), each about one block.
NoteKinds == {"orphan", "accepted", "connected"}
Notes == [kind : NoteKinds, hash : Blocks]

\* RelayMsg relaying a transaction-typed vector.
RelayMsgAsTx(h) ==
    [type |-> "relay", to |-> NoPeer, locKind |-> "none", locHash |-> 0,
     stop |-> 0, list |-> <<[type |-> "tx", hash |-> h]>>]

\* b.server.RelayInventory(iv) for the block inventory vector of a hash.
RelayMsg(h) ==
    [type |-> "relay", to |-> NoPeer, locKind |-> "none", locHash |-> 0,
     stop |-> 0, list |-> <<[type |-> "block", hash |-> h]>>]

\* What a notification reaction last did: the notification, whether a peer
\* was recorded for the orphan, whether the locator call failed, and the
\* messages pushed / vectors relayed.
NoRxEv == [note |-> NoNote, found |-> FALSE, locFail |-> FALSE, msgs |-> <<>>]

\* chainNotificationHandler: the loop condition `for !b.shutdown`; after
\* the loop, b.wg.Done().
CnLoop ==
    /\ cnPc = "loop"
    /\ IF shutdown
       THEN cnPc' = "done" /\ wg' = wg - 1
       ELSE cnPc' = "select" /\ UNCHANGED wg
    /\ UNCHANGED <<lifeFlags, peerVars, callVars, syncVars, chain, bhPc,
                   blkVars, invVars, mapVars, chainNotify, rx, rxEv>>

\* chainNotificationHandler: case notification := <-b.chainNotify, then
\* go b.handleNotifyMsg(notification).
CnRecv ==
    /\ cnPc = "select"
    /\ chainNotify # <<>>
    /\ rx' = [rx EXCEPT ![Head(chainNotify)] = "run"]
    /\ chainNotify' = Tail(chainNotify)
    /\ cnPc' = "loop"
    /\ UNCHANGED <<lifeVars, peerVars, callVars, syncVars, chain, bhPc,
                   blkVars, invVars, mapVars, rxEv>>

\* chainNotificationHandler: case <-b.quit, then b.wg.Done().
CnQuit ==
    /\ cnPc = "select"
    /\ quitClosed
    /\ cnPc' = "done"
    /\ wg' = wg - 1
    /\ UNCHANGED <<lifeFlags, peerVars, callVars, syncVars, chain, bhPc,
                   blkVars, invVars, mapVars, chainNotify, rx, rxEv>>

\* handleNotifyMsg, case NTBlockAccepted (lines 419-432): relay the block.
RxAccepted(n) ==
    /\ rx[n] = "run"
    /\ n.kind = "accepted"
    /\ rxEv' = [note |-> n, found |-> FALSE, locFail |-> FALSE,
                msgs |-> <<RelayMsg(n.hash)>>]
    /\ rx' = [rx EXCEPT ![n] = "none"]
    /\ UNCHANGED <<lifeVars, peerVars, callVars, syncVars, chain, bhPc,
                   blkVars, invVars, mapVars, chainNotify, cnPc>>

\* handleNotifyMsg for a notification type its switch has no case for
\* (lines 395-433): nothing is done.
RxOther(n) ==
    /\ rx[n] = "run"
    /\ n.kind \notin {"orphan", "accepted"}
    /\ rxEv' = [note |-> n, found |-> FALSE, locFail |-> FALSE, msgs |-> <<>>]
    /\ rx' = [rx EXCEPT ![n] = "none"]
    /\ UNCHANGED <<lifeVars, peerVars, callVars, syncVars, chain, bhPc,
                   blkVars, invVars, mapVars, chainNotify, cnPc>>

\* handleNotifyMsg, case NTOrphanBlock (line 398): b.blockPeerMutex.Lock().
RxLock(n) ==
    /\ rx[n] = "run"
    /\ n.kind = "orphan"
    /\ blockPeerMutex = NoNote
    /\ blockPeerMutex' = n
    /\ rx' = [rx EXCEPT ![n] = "locked"]
    /\ UNCHANGED <<lifeVars, peerVars, callVars, syncVars, chain, bhPc,
                   blkVars, invVars, blockPeer, chainNotify, cnPc, rxEv>>

\* handleNotifyMsg, case NTOrphanBlock (lines 401-416) for the orphan hash h:
\* when a peer is recorded for the orphan, push it a get-blocks request from
\* the latest locator to the orphan root and delete the entry keyed by the
\* root (nothing when the locator cannot be built); otherwise warn.
handleNotifyOrphan(h, locOk) ==
    IF blockPeer[h] # NoPeer
    THEN LET orphanRoot == GetOrphanRoot(chain, h)
         IN IF locOk
            THEN /\ rxEv' = [note |-> OrphanNote(h), found |-> TRUE,
                             locFail |-> FALSE,
                             msgs |-> <<GetBlocksMsg(blockPeer[h], "latest",
                                          NewestHeight(chain), orphanRoot)>>]
                 /\ blockPeer' = [b \in Blocks |->
                                     IF b = orphanRoot THEN NoPeer ELSE blockPeer[b]]
            ELSE /\ rxEv' = [note |-> OrphanNote(h), found |-> TRUE,
                             locFail |-> TRUE, msgs |-> <<>>]
                 /\ UNCHANGED blockPeer
    ELSE /\ rxEv' = [note |-> OrphanNote(h), found |-> FALSE,
                     locFail |-> FALSE, msgs |-> <<>>]
         /\ UNCHANGED blockPeer

\* handleNotifyMsg, case NTOrphanBlock, with the mutex held, up to the
\* deferred b.blockPeerMutex.Unlock().
RxOrphan(n) ==
    /\ rx[n] = "locked"
    /\ \E locOk \in BOOLEAN : handleNotifyOrphan(n.hash, locOk)
    /\ blockPeerMutex' = NoNote
    /\ rx' = [rx EXCEPT ![n] = "none"]
    /\ UNCHANGED <<lifeVars, peerVars, callVars, syncVars, chain, bhPc,
                   blkVars, invVars, chainNotify, cnPc>>

\* ------------------------------------------------------------ environment
\* A peer session that completed its version handshake announces itself on
\* b.newCandidates, with the height and services of its version message.
NotifyNewCandidate(p) ==
    /\ ~announced[p] /\ ~doneSent[p]
    /\ Len(newCandidates) < MaxPeers
    /\ \E h \in PeerHeights, full \in BOOLEAN :
           /\ lastBlock' = [lastBlock EXCEPT ![p] = h]
           /\ fullNode' = [fullNode EXCEPT ![p] = full]
    /\ announced' = [announced EXCEPT ![p] = TRUE]
    /\ newCandidates' = Append(newCandidates, p)
    /\ UNCHANGED <<lifeVars, doneSent, callVars, syncPc, candidatePeers,
                   syncPeer, donePeers, syncEv, chain, bhPc, blkVars,
                   invVars, mapVars, noteVars>>

\* A peer session that disconnects reports itself on b.donePeers.
NotifyPeerDone(p) ==
    /\ ~doneSent[p]
    /\ Len(donePeers) < MaxPeers
    /\ doneSent' = [doneSent EXCEPT ![p] = TRUE]
    /\ donePeers' = Append(donePeers, p)
    /\ UNCHANGED <<lifeVars, lastBlock, fullNode, announced, callVars, syncPc,
                   candidatePeers, syncPeer, newCandidates, syncEv, chain,
                   bhPc, blkVars, invVars, mapVars, noteVars>>

\* The chain engine as the sync task and the inventory handler see it
\* change between two of their steps: the ingest task has processed block b.
ChainStep(b) ==
    /\ started
    /\ \E valid \in BOOLEAN :
           LET r == ProcessBlock(chain, b, valid)
           IN ~r.err /\ chain' = r.chain
    /\ UNCHANGED <<lifeVars, peerVars, callVars, syncVars, bhPc, blkVars,
                   invVars, mapVars, noteVars>>

NoArg == [block |-> 0, inv |-> <<>>]

\* QueueBlock(block, p), lines 455-459: the check of b.shutdown.
QueueBlockCall(p, b) ==
    /\ peerPc[p] = "idle"
    /\ numCalls[p] < MaxCalls
    /\ numCalls' = [numCalls EXCEPT ![p] = @ + 1]
    /\ peerPc' = [peerPc EXCEPT ![p] = IF shutdown THEN "refuse" ELSE "send"]
    /\ peerArg' = [peerArg EXCEPT ![p] = [block |-> b, inv |-> <<>>]]
    /\ UNCHANGED <<lifeVars, peerVars, blockProcessed, syncVars, chain, bhPc,
                   blkVars, invVars, mapVars, noteVars>>

\* QueueBlock line 457: p.blockProcessed <- false.
QueueBlockRefuse(p) ==
    /\ peerPc[p] = "refuse"
    /\ blockProcessed[p] = <<>>
    /\ blockProcessed' = [blockProcessed EXCEPT ![p] = <<FALSE>>]
    /\ peerPc' = [peerPc EXCEPT ![p] = "await"]
    /\ UNCHANGED <<lifeVars, peerVars, peerArg, numCalls, syncVars, chain, bhPc,
                   blkVars, invVars, mapVars, noteVars>>

\* QueueBlock lines 461-462: b.blockQueue <- &bmsg.
QueueBlockSend(p) ==
    /\ peerPc[p] = "send"
    /\ Len(blockQueue) < chanBufferSize
    /\ blockQueue' = Append(blockQueue, [block |-> peerArg[p].block, peer |-> p])
    /\ peerPc' = [peerPc EXCEPT ![p] = "await"]
    /\ submitOrder' = Append(submitOrder, "block")
    /\ UNCHANGED <<lifeVars, peerVars, peerArg, blockProcessed, numCalls,
                   syncVars, chain, bhPc, bhMsg, bhRes, receivedLogBlocks,
                   receivedLogTx, dbSyncs, blkEv, invQueue, requestQueue,
                   invEv, mapVars, noteVars>>

\* The peer session, after QueueBlock has returned, waits for the signal on
\* its blockProcessed channel.
PeerAwaitProcessed(p) ==
    /\ peerPc[p] = "await"
    /\ blockProcessed[p] # <<>>
    /\ blockProcessed' = [blockProcessed EXCEPT ![p] = Tail(@)]
    /\ peerPc' = [peerPc EXCEPT ![p] = "idle"]
    /\ peerArg' = [peerArg EXCEPT ![p] = NoArg]
    /\ UNCHANGED <<lifeVars, peerVars, numCalls, syncVars, chain, bhPc,
                   blkVars, invVars, mapVars, noteVars>>

\* QueueInv(inv, p), lines 469-471: the check of b.shutdown.
QueueInvCall(p, inv) ==
    /\ peerPc[p] = "idle"
    /\ Len(requestQueue[p]) + Len(inv) <= MaxReqQueue
    /\ numCalls[p] < MaxCalls
    /\ numCalls' = [numCalls EXCEPT ![p] = @ + 1]
    /\ IF shutdown
       THEN UNCHANGED <<peerPc, peerArg>>
       ELSE /\ peerPc' = [peerPc EXCEPT ![p] = "sendinv"]
            /\ peerArg' = [peerArg EXCEPT ![p] = [block |-> 0, inv |-> inv]]
    /\ UNCHANGED <<lifeVars, peerVars, blockProcessed, syncVars, chain, bhPc,
                   blkVars, invVars, mapVars, noteVars>>

\* QueueInv lines 473-474: b.invQueue <- &imsg.
QueueInvSend(p) ==
    /\ peerPc[p] = "sendinv"
    /\ Len(invQueue) < chanBufferSize
    /\ invQueue' = Append(invQueue, [inv |-> peerArg[p].inv, peer |-> p])
    /\ submitOrder' = Append(submitOrder, "inv")
    /\ peerPc' = [peerPc EXCEPT ![p] = "idle"]
    /\ peerArg' = [peerArg EXCEPT ![p] = NoArg]
    /\ UNCHANGED <<lifeVars, peerVars, blockProcessed, numCalls, syncVars,
                   chain, bhPc, blkVars, requestQueue, invEv, mapVars, noteVars>>

\* ---------------------------------------------------------------- lifecycle
\* Start(): launches the three handler goroutines.
Start ==
    /\ ~started
    /\ wg' = wg + 3
    /\ syncPc' = "loop"
    /\ bhPc' = "loop"
    /\ cnPc' = "loop"
    /\ started' = TRUE
    /\ UNCHANGED <<shutdown, quitClosed, panicked, stopPc, peerVars, callVars,
                   candidatePeers, syncPeer, newCandidates, donePeers, syncEv,
                   chain, blkVars, invVars, mapVars, chainNotify, rx, rxEv>>

\* Stop() lines 495-499: the check of b.shutdown.
StopCheck(c) ==
    /\ stopPc[c] = "idle"
    /\ stopPc' = [stopPc EXCEPT ![c] = IF shutdown THEN "returned" ELSE "set"]
    /\ UNCHANGED <<started, shutdown, quitClosed, wg, panicked, peerVars,
                   callVars, syncVars, chain, bhPc, blkVars, invVars, mapVars,
                   noteVars>>

\* Stop() line 502: b.shutdown = true.
StopSet(c) ==
    /\ stopPc[c] = "set"
    /\ shutdown' = TRUE
    /\ stopPc' = [stopPc EXCEPT ![c] = "close"]
    /\ UNCHANGED <<started, quitClosed, wg, panicked, peerVars, callVars,
                   syncVars, chain, bhPc, blkVars, invVars, mapVars, noteVars>>

\* Stop() line 503: close(b.quit); closing a closed channel panics.
StopClose(c) ==
    /\ stopPc[c] = "close"
    /\ IF quitClosed
       THEN /\ panicked' = TRUE
            /\ stopPc' = [stopPc EXCEPT ![c] = "panic"]
            /\ UNCHANGED quitClosed
       ELSE /\ quitClosed' = TRUE
            /\ stopPc' = [stopPc EXCEPT ![c] = "wait"]
            /\ UNCHANGED panicked
    /\ UNCHANGED <<started, shutdown, wg, peerVars, callVars, syncVars, chain,
                   bhPc, blkVars, invVars, mapVars, noteVars>>

\* Stop() lines 504-505: b.wg.Wait(), then return.
StopWait(c) ==
    /\ stopPc[c] = "wait"
    /\ wg = 0
    /\ stopPc' = [stopPc EXCEPT ![c] = "joined"]
    /\ UNCHANGED <<started, shutdown, quitClosed, wg, panicked, peerVars,
                   callVars, syncVars, chain, bhPc, blkVars, invVars, mapVars,
                   noteVars>>

\* newBlockManager: the state after construction.
Init ==
    /\ started = FALSE
    /\ shutdown = FALSE
    /\ quitClosed = FALSE
    /\ wg = 0
    /\ panicked = FALSE
    /\ stopPc = [c \in StopCallers |-> "idle"]
    /\ lastBlock = [p \in Peers |-> 0]
    /\ fullNode = [p \in Peers |-> FALSE]
    /\ announced = [p \in Peers |-> FALSE]
    /\ doneSent = [p \in Peers |-> FALSE]
    /\ peerPc = [p \in Peers |-> "idle"]
    /\ peerArg = [p \in Peers |-> NoArg]
    /\ blockProcessed = [p \in Peers |-> <<>>]
    /\ numCalls = [p \in Peers |-> 0]
    /\ syncPc = "idle"
    /\ candidatePeers = <<>>
    /\ syncPeer = NoPeer
    /\ newCandidates = <<>>
    /\ donePeers = <<>>
    /\ syncEv = NoSyncEv
    /\ chain = [b \in Blocks |-> "unknown"]
    /\ bhPc = "idle"
    /\ bhMsg = NoMsg
    /\ bhRes = NoRes
    /\ blockQueue = <<>>
    /\ receivedLogBlocks = 0
    /\ receivedLogTx = 0
    /\ dbSyncs = 0
    /\ blkEv = NoBlkEv
    /\ invQueue = <<>>
    /\ submitOrder = <<>>
    /\ requestQueue = [p \in Peers |-> <<>>]
    /\ invEv = NoInvEv
    /\ blockPeer = [b \in Blocks |-> NoPeer]
    /\ blockPeerMutex = NoNote
    /\ chainNotify = <<>>
    /\ cnPc = "idle"
    /\ rx = [n \in Notes |-> "none"]
    /\ rxEv = NoRxEv

\* ----------------------------------------------------------- specifications
\* The sync coordinator with its environment.
NextSync ==
    \/ Start
    \/ SyncLoop
    \/ SyncNewCandidate
    \/ SyncDonePeer
    \/ \E p \in Peers : NotifyNewCandidate(p)
    \/ \E p \in Peers : NotifyPeerDone(p)
    \/ \E b \in Blocks : ChainStep(b)

SpecSync == Init /\ [][NextSync]_vars

\* The inventory handler applied to the inventory messages of InvPeers,
\* with the chain engine changing between messages.
NextInv ==
    \/ Start
    \/ BhLoop
    \/ BhAnyInv
    \/ \E b \in Blocks : ChainStep(b)

SpecInv == Init /\ [][NextInv]_vars

\* The steps of the ingest task, the notification task and the reactions.
IngestSteps ==
    \/ BhLoop
    \/ BhRecvBlock
    \/ BhRecord
    \/ BhProcess
    \/ BhNotify
    \/ BhPost
    \/ BhSignal
    \/ CnLoop
    \/ CnRecv
    \/ \E n \in Notes : RxAccepted(n)
    \/ \E n \in Notes : RxLock(n)
    \/ \E n \in Notes : RxOrphan(n)

\* Block ingest: the peers of IngestPeers submit blocks.
NextIngest ==
    \/ Start
    \/ IngestSteps
    \/ \E p \in IngestPeers, b \in Blocks : QueueBlockCall(p, b)
    \/ \E p \in IngestPeers : QueueBlockSend(p)
    \/ \E p \in IngestPeers : PeerAwaitProcessed(p)

SpecIngest == Init /\ [][NextIngest]_vars

\* The inventory lists the peer of LifePeers submits.
LifeInvLists == {<<[type |-> "block", hash |-> b]>> : b \in Blocks}

\* All goroutines, with the peer of LifePeers connected and Stop called by
\* the callers of StopCallers.
Next ==
    \/ Start
    \/ \E c \in StopCallers : StopCheck(c)
    \/ \E c \in StopCallers : StopSet(c)
    \/ \E c \in StopCallers : StopClose(c)
    \/ \E c \in StopCallers : StopWait(c)
    \/ SyncLoop
    \/ SyncNewCandidate
    \/ SyncDonePeer
    \/ SyncQuit
    \/ \E p \in LifePeers : NotifyNewCandidate(p)
    \/ \E p \in LifePeers : NotifyPeerDone(p)
    \/ IngestSteps
    \/ BhRecvInv
    \/ BhQuit
    \/ CnQuit
    \/ \E p \in LifePeers, b \in Blocks : QueueBlockCall(p, b)
    \/ \E p \in LifePeers : QueueBlockSend(p)
    \/ \E p \in LifePeers : QueueBlockRefuse(p)
    \/ \E p \in LifePeers : PeerAwaitProcessed(p)
    \/ \E p \in LifePeers, inv \in LifeInvLists : QueueInvCall(p, inv)
    \/ \E p \in LifePeers : QueueInvSend(p)

Spec == Init /\ [][Next]_vars

\* The peers that submit blocks, and the caller of Stop, in the
\* specification with fair scheduling.
LivePeers == {1, 2}
LiveStopper == 1

\* The steps of each goroutine, for the fairness conditions.
SyncSteps == SyncLoop \/ SyncQuit
BhSteps ==
    \/ BhLoop
    \/ BhQuit
    \/ BhRecvBlock
    \/ BhRecord
    \/ BhProcess
    \/ BhNotify
    \/ BhPost
    \/ BhSignal
CnSteps == CnLoop \/ CnRecv \/ CnQuit
RxSteps(n) == RxAccepted(n) \/ RxLock(n) \/ RxOrphan(n)
PeerSteps(p) == QueueBlockSend(p) \/ QueueBlockRefuse(p) \/ PeerAwaitProcessed(p)
StopSteps(c) == StopSet(c) \/ StopClose(c) \/ StopWait(c)

\* Start, one call of Stop, the three handler goroutines, the reactions and
\* the peers of LivePeers submitting blocks.
NextLive ==
    \/ Start
    \/ StopCheck(LiveStopper)
    \/ StopSet(LiveStopper)
    \/ StopClose(LiveStopper)
    \/ StopWait(LiveStopper)
    \/ SyncLoop
    \/ SyncQuit
    \/ BhQuit
    \/ CnQuit
    \/ IngestSteps
    \/ \E p \in LivePeers, b \in Blocks : QueueBlockCall(p, b)
    \/ \E p \in LivePeers : QueueBlockSend(p)
    \/ \E p \in LivePeers : QueueBlockRefuse(p)
    \/ \E p \in LivePeers : PeerAwaitProcessed(p)

\* The Go scheduler runs every goroutine that can take a step: each handler
\* goroutine, each reaction goroutine, each peer session inside a call and
\* the caller of Stop once past its check.
Fairness ==
    /\ WF_vars(SyncSteps)
    /\ WF_vars(BhSteps)
    /\ WF_vars(CnSteps)
    /\ \A n \in Notes : WF_vars(RxSteps(n))
    /\ \A p \in LivePeers : WF_vars(PeerSteps(p))
    /\ WF_vars(StopSteps(LiveStopper))

SpecLive == Init /\ [][NextLive]_vars /\ Fairness

\* Inventory submission: every peer submits inventory messages with
\* QueueInv while the handlers run and Stop is called.
NextQueue ==
    \/ Start
    \/ StopCheck(LiveStopper)
    \/ StopSet(LiveStopper)
    \/ StopClose(LiveStopper)
    \/ StopWait(LiveStopper)
    \/ SyncLoop
    \/ SyncQuit
    \/ CnLoop
    \/ CnQuit
    \/ BhLoop
    \/ BhRecvInv
    \/ BhQuit
    \/ \E p \in Peers, inv \in LifeInvLists : QueueInvCall(p, inv)
    \/ \E p \in Peers : QueueInvSend(p)

SpecQueue == Init /\ [][NextQueue]_vars

\* The chain engine sends a notification of another kind about a block it
\* holds on the main chain.
ChainNotifyOther(b) ==
    /\ started
    /\ chain[b] = "main"
    /\ LET n == [kind |-> "connected", hash |-> b]
       IN /\ rx[n] = "none"
          /\ n \notin Range(chainNotify)
          /\ Len(chainNotify) < chanBufferSize
          /\ chainNotify' = Append(chainNotify, n)
    /\ UNCHANGED <<lifeVars, peerVars, callVars, syncVars, chain, bhPc,
                   blkVars, invVars, mapVars, cnPc, rx, rxEv>>

\* Notifications of every kind: block ingest by the peers of LivePeers, with
\* the chain engine also sending notifications of another kind.
NextNotify ==
    \/ Start
    \/ IngestSteps
    \/ \E b \in Blocks : ChainNotifyOther(b)
    \/ \E n \in Notes : RxOther(n)
    \/ \E p \in LivePeers, b \in Blocks : QueueBlockCall(p, b)
    \/ \E p \in LivePeers : QueueBlockSend(p)
    \/ \E p \in LivePeers : PeerAwaitProcessed(p)

SpecNotify == Init /\ [][NextNotify]_vars

\* The sync coordinator under fair scheduling, with the peers of LivePeers:
\* the sync goroutine takes a step whenever it can; peers announce
\* themselves and disconnect, and the chain grows, when they will.
SyncSelectSteps == SyncLoop \/ SyncNewCandidate \/ SyncDonePeer

NextSyncLive ==
    \/ Start
    \/ SyncLoop
    \/ SyncNewCandidate
    \/ SyncDonePeer
    \/ \E p \in LivePeers : NotifyNewCandidate(p)
    \/ \E p \in LivePeers : NotifyPeerDone(p)
    \/ \E b \in Blocks : ChainStep(b)

SpecSyncLive == Init /\ [][NextSyncLive]_vars /\ WF_vars(SyncSelectSteps)

\* Block and inventory submission together: the peers of LivePeers submit
\* blocks and inventory messages to the running handlers.
NextOrder ==
    \/ Start
    \/ IngestSteps
    \/ BhRecvInv
    \/ \E p \in LivePeers, b \in Blocks : QueueBlockCall(p, b)
    \/ \E p \in LivePeers : QueueBlockSend(p)
    \/ \E p \in LivePeers : PeerAwaitProcessed(p)
    \/ \E p \in LivePeers, inv \in LifeInvLists : QueueInvCall(p, inv)
    \/ \E p \in LivePeers : QueueInvSend(p)

SpecOrder == Init /\ [][NextOrder]_vars

\* ------------------------------------------------- sync coordinator claims
\* The candidates of a list that are ahead of a height, in list order.
Ahead(list, height) == SelectSeq(list, LAMBDA p : lastBlock[p] > height)

\* C1: after a run of startSync with no active sync peer in which the
\* height lookup and the locator construction succeed, either a sync peer is
\* set and exactly one get-blocks request (latest locator, zero stop hash)
\* was pushed to it, or no sync peer is set, nothing was pushed and no
\* candidate is ahead of the local height.
C1_SelectSyncOutcome ==
    (syncEv.ran /\ ~syncEv.locFail) =>
        \/ /\ syncPeer # NoPeer
           /\ syncEv.msgs =
                  <<GetBlocksMsg(syncPeer, "latest", syncEv.height, zeroHash)>>
        \/ /\ syncPeer = NoPeer
           /\ syncEv.msgs = <<>>
           /\ Ahead(candidatePeers, syncEv.height) = <<>>

\* C2: the peer a run of startSync selects is the first candidate, in
\* insertion order, among those ahead of the local height.
C2_SelectsFirstAhead ==
    (syncEv.ran /\ syncEv.msgs # <<>>) =>
        syncPeer = Head(Ahead(candidatePeers, syncEv.height))

\* C3: a run of startSync never selects a peer at or below the local height,
\* and after a run that got past the sync-peer check and read the height no
\* candidate at or below that height is left in the candidate list.
C3_BehindNeverSelectedAndPruned ==
    /\ (syncEv.ran /\ syncEv.msgs # <<>>) => lastBlock[syncPeer] > syncEv.height
    /\ syncEv.ran =>
           \A i \in DOMAIN candidatePeers :
               lastBlock[candidatePeers[i]] > syncEv.height

\* C4: after handleDonePeerMsg for the active sync peer, that peer is not a
\* candidate and not the sync peer, and (the lookups of the re-selection
\* succeeding) a remaining candidate ahead of the local height is the new
\* sync peer if there is one, and otherwise there is no sync peer.
C4_DoneSyncPeerReselects ==
    (syncEv.op = "done" /\ syncEv.wasSync) =>
        /\ syncEv.peer \notin Range(candidatePeers)
        /\ syncPeer # syncEv.peer
        /\ (syncEv.ran /\ ~syncEv.locFail) =>
               IF Ahead(candidatePeers, syncEv.height) # <<>>
               THEN syncPeer \in Range(Ahead(candidatePeers, syncEv.height))
               ELSE syncPeer = NoPeer

\* ------------------------------------------------ inventory handler claims
IsGetData(m) == m.type = "getdata"

RECURSIVE ConcatLists(_)
\* The vectors of a sequence of getdata messages, in order.
ConcatLists(msgs) ==
    IF msgs = <<>> THEN <<>> ELSE Head(msgs).list \o ConcatLists(Tail(msgs))

\* The vectors the last inventory round sent in getdata messages.
InvFetched == ConcatLists(SelectSeq(invEv.msgs, IsGetData))

\* The block vectors of the last inventory message, and those of them the
\* chain did not hold, in list order.
InvBlockVects == SelectSeq(invEv.inv, LAMBDA iv : iv.type = "block")
InvUnknownVects ==
    SelectSeq(invEv.inv,
              LAMBDA iv : iv.type = "block" /\ ~HaveBlock(invEv.chain, iv.hash))

\* The vectors the last inventory round put on the request queue: what was
\* fetched or is still queued, less what was queued before.
InvEnqueued ==
    LET all == InvFetched \o requestQueue[invEv.peer]
    IN SubSeq(all, Len(invEv.before) + 1, Len(all))

\* Vector i of the last inventory message is a block the chain held as a
\* known orphan.
InvKnownOrphan(i) ==
    /\ invEv.inv[i].type = "block"
    /\ IsKnownOrphan(invEv.chain, invEv.inv[i].hash)

\* The get-blocks request for the known orphan at index i.
InvOrphanRequest(i) ==
    GetBlocksMsg(invEv.peer, "latest", NewestHeight(invEv.chain),
                 GetOrphanRoot(invEv.chain, invEv.inv[i].hash))

\* C5: every getdata message of an inventory round holds at most
\* MaxInvPerMsg vectors, and what was queued before the round followed by
\* what the round enqueued is exactly what was fetched followed by what is
\* still queued: nothing is lost, duplicated or reordered.
C5_FetchCappedLeftoverQueued ==
    invEv.op = "inv" =>
        /\ \A i \in DOMAIN invEv.msgs :
               IsGetData(invEv.msgs[i]) => Len(invEv.msgs[i].list) <= MaxInvPerMsg
        /\ InvFetched \o requestQueue[invEv.peer] = invEv.before \o InvUnknownVects

\* A round that started with a leftover, fetched a full message and left a
\* leftover again.
C5_Witness ==
    /\ invEv.op = "inv"
    /\ invEv.before # <<>>
    /\ Len(InvFetched) = MaxInvPerMsg
    /\ requestQueue[invEv.peer] # <<>>

\* C6: when every block vector of the message is unknown to the chain and
\* they fit, with the queued vectors, in one message, the round pushes
\* exactly one message, a getdata holding the queued vectors followed by the
\* block vectors in list order (none when there is nothing to fetch), and
\* leaves the queue empty; a round that drains nothing sends no getdata; and
\* only block vectors are ever fetched.
C6_AllUnknownOneFetch ==
    invEv.op = "inv" =>
        /\ (/\ InvUnknownVects = InvBlockVects
            /\ Len(invEv.before) + Len(InvBlockVects) <= MaxInvPerMsg) =>
               /\ invEv.msgs =
                      IF invEv.before \o InvBlockVects = <<>> THEN <<>>
                      ELSE <<GetDataMsg(invEv.peer, invEv.before \o InvBlockVects)>>
               /\ requestQueue[invEv.peer] = <<>>
        /\ (invEv.before \o InvUnknownVects = <<>>) =>
               SelectSeq(invEv.msgs, IsGetData) = <<>>
        /\ \A j \in DOMAIN InvFetched : InvFetched[j].type = "block"

\* A message of two unknown blocks and a transaction, answered by one
\* getdata for the two blocks.
C6_Witness ==
    /\ invEv.op = "inv"
    /\ InvUnknownVects = InvBlockVects
    /\ Len(InvBlockVects) = 2
    /\ \E i \in DOMAIN invEv.inv : invEv.inv[i].type = "tx"
    /\ invEv.msgs = <<GetDataMsg(invEv.peer, InvBlockVects)>>
    /\ requestQueue[invEv.peer] = <<>>

\* C7 as claimed: every known orphan of the message gets a get-blocks
\* request from the latest locator to its orphan root, and is not enqueued.
C7_OrphanAlwaysGetBlocks ==
    invEv.op = "inv" =>
        \A i \in DOMAIN invEv.inv :
            InvKnownOrphan(i) =>
                /\ InvOrphanRequest(i) \in Range(invEv.msgs)
                /\ invEv.inv[i] \notin Range(InvEnqueued)

RECURSIVE InvOrphanRequests(_)
\* The get-blocks requests for the known orphans from index i on whose
\* locator could be built, in list order.
InvOrphanRequests(i) ==
    IF i > Len(invEv.inv) THEN <<>>
    ELSE (IF InvKnownOrphan(i) /\ ~invEv.locFail[i]
          THEN <<InvOrphanRequest(i)>> ELSE <<>>) \o InvOrphanRequests(i + 1)

\* C7 as amended: the get-blocks requests built from the latest locator are
\* exactly those for the known orphans whose LatestBlockLocator call
\* succeeded, each to its orphan root, in list order (none for an orphan
\* whose call failed); and no known orphan is enqueued or fetched.
C7_OrphanGetBlocksUnlessLocatorFails ==
    invEv.op = "inv" =>
        /\ SelectSeq(invEv.msgs, LAMBDA m : m.type = "getblocks" /\ m.locKind = "latest")
               = InvOrphanRequests(1)
        /\ \A i \in DOMAIN invEv.inv :
               InvKnownOrphan(i) => invEv.inv[i] \notin Range(InvEnqueued)

\* A message with a known orphan whose request was pushed and another whose
\* locator call failed.
C7_Witness ==
    /\ invEv.op = "inv"
    /\ \E i, j \in DOMAIN invEv.inv :
           /\ InvKnownOrphan(i) /\ ~invEv.locFail[i]
           /\ InvKnownOrphan(j) /\ invEv.locFail[j]
    /\ InvOrphanRequests(1) # <<>>

\* ---------------------------------------------------- block handler claims
\* C8: when handleBlockMsg has returned for a block that ProcessBlock
\* rejected with an error, the block-origin map has no entry for the block's
\* hash, the counters of received blocks and transactions are what they
\* were when the handler started, and the store was not synced.
C8_RejectedBlockLeavesNoTrace ==
    (blkEv.op = "block" /\ blkEv.done /\ blkEv.err) =>
        /\ blockPeer[blkEv.hash] = NoPeer
        /\ receivedLogBlocks = blkEv.blocks
        /\ receivedLogTx = blkEv.tx
        /\ dbSyncs = blkEv.syncs

\* handleBlockMsg has just returned for a rejected block, after an earlier
\* block had been counted and synced.
C8_Witness ==
    /\ bhPc = "signal"
    /\ blkEv.op = "block" /\ blkEv.done /\ blkEv.err
    /\ blkEv.blocks > 0 /\ blkEv.tx > 0 /\ blkEv.syncs > 0

\* ------------------------------------------------------- lifecycle claims
\* The callers of Stop that went past the check of the shutdown flag and
\* reached close(b.quit).
StopClosers ==
    {c \in StopCallers : stopPc[c] \in {"close", "wait", "joined", "panic"}}

\* C9: whatever the interleaving of the callers of Stop, the quit channel is
\* closed at most once: at most one caller goes on to close it and wait for
\* the handlers, every other caller returns at the shutdown check, and no
\* caller closes the channel when it is already closed.
C9_StopTwiceSafe ==
    /\ ~panicked
    /\ Cardinality(StopClosers) <= 1

\* C10: at the step where Stop returns from b.wg.Wait(), each of the three
\* handler goroutines has exited (or was never started) and no reaction
\* goroutine spawned by the notification handler is still running.
C10_StopReturnsAfterAllTasksExit ==
    [][(\E c \in StopCallers : stopPc[c] = "wait" /\ stopPc'[c] = "joined") =>
           /\ syncPc' \in {"idle", "done"}
           /\ bhPc' \in {"idle", "done"}
           /\ cnPc' \in {"idle", "done"}
           /\ \A n \in Notes : rx'[n] = "none"]_vars

C12_QueueBlockEventuallySignalled ==
    \A p \in LivePeers :
        (started /\ peerPc[p] \in {"send", "refuse"}) ~> (blockProcessed[p] # <<>>)

\* C13: a caller of QueueInv never has to wait: no peer is inside QueueInv
\* at the send on b.invQueue while the queue holds its full capacity.
C13_QueueInvNeverBlocks ==
    \A p \in Peers : ~(peerPc[p] = "sendinv" /\ Len(invQueue) >= chanBufferSize)

\* ---------------------------------------------------- notification claims
\* C14: the reaction to an orphan notification finds a peer recorded for the
\* orphan in the block-origin map, whatever the block handler processed
\* since it accepted the orphan.
C14_OrphanReactionFindsPeer ==
    rxEv.note.kind = "orphan" => rxEv.found

C16_DonePeerNotCandidate ==
    /\ \A i \in DOMAIN candidatePeers : fullNode[candidatePeers[i]]
    /\ \A p \in Peers :
           (doneSent[p] /\ p \notin Range(donePeers)) =>
               (p \notin Range(candidatePeers) /\ syncPeer # p)

\* C17: when the local height has reached the announced height of the sync
\* peer, the sync peer is eventually cleared or replaced, unless that peer
\* disconnects.
C17_UselessSyncPeerCleared ==
    \A p \in LivePeers :
        (syncPeer = p /\ lastBlock[p] <= NewestHeight(chain) /\ ~doneSent[p])
            ~> (syncPeer # p \/ doneSent[p])

\* ---------------------------------------------------- block-origin claims
\* C18: when the block handler is between two messages, no notification is
\* pending and no reaction is running, every block with an entry in the
\* block-origin map is held by the chain engine as an orphan.
C18_OriginEntriesArePendingOrphans ==
    (/\ bhPc \in {"idle", "loop", "select", "done"}
     /\ chainNotify = <<>>
     /\ \A n \in Notes : rx[n] = "none") =>
        \A b \in Blocks : blockPeer[b] # NoPeer => IsKnownOrphan(chain, b)

\* ------------------------------------------------------- ordering claims
\* C19: the block handler receives the messages in the order QueueBlock and
\* QueueInv sent them: every message it receives is the earliest sent of
\* those it has not received yet.
C19_HandledInSubmissionOrder ==
    [][Len(submitOrder') < Len(submitOrder) => submitOrder' = Tail(submitOrder)]_vars

\* C20: no reaction goroutine calls the chain engine (GetOrphanRoot,
\* LatestBlockLocator) while the block handler is inside ProcessBlock, that
\* is between its call at line 230 and the return of that call.
C20_NoChainAccessDuringProcessBlock ==
    [][(\E n \in Notes : rx[n] = "locked" /\ rx'[n] = "none" /\ rxEv'.found) =>
           bhPc \notin {"process", "notify"}]_vars

====
